---- MODULE Spec2Model ----
(***************************************************************************)
(* Model of MEMT/cpp/Server.cc: the MEMT decoding server.                  *)
(*                                                                         *)
(* Text is modelled at two levels.  The value of input.confidence is a     *)
(* sequence of one-character strings, because ParseConfidences scans it    *)
(* character by character.  Every other option value is the token that     *)
(* boost::lexical_cast accepted, kept as its text.                         *)
(*                                                                         *)
(* std::istream extraction of a floating value follows GNU libstdc++       *)
(* (num_get::_M_extract_float followed by strtod with a full-consumption   *)
(* check), the library the project is built with.                          *)
(***************************************************************************)
EXTENDS Integers, Sequences, FiniteSets, TLC

(***************************************************************************)
(* Bounds of the model.                                                    *)
(***************************************************************************)
\* Longest confidence string enumerated for ParseConfidences on its own.
MaxLen == 4
\* Connections the server accepts before the model stops offering clients.
MaxConns == 2
\* Departures from the nominal run (request edits, start-up edits, faults)
\* taken along one behaviour.
MaxDeviations == 2

(***************************************************************************)
(* Characters and floating-point extraction.                               *)
(***************************************************************************)
Digits == {"0", "1", "2", "3", "4", "5", "6", "7", "8", "9"}

Whitespace == {" ", "\t"}

IsSign(c) == c \in {"+", "-"}

DigitVal(c) ==
  CASE c = "0" -> 0 [] c = "1" -> 1 [] c = "2" -> 2 [] c = "3" -> 3
    [] c = "4" -> 4 [] c = "5" -> 5 [] c = "6" -> 6 [] c = "7" -> 7
    [] c = "8" -> 8 [] c = "9" -> 9

\* The characters of a string made of one-character strings, as one string
\* (std::string::c_str() as it is written to a stream).
RECURSIVE Str(_)
Str(cs) == IF cs = <<>> THEN "" ELSE Head(cs) \o Str(Tail(cs))

\* The sentry of operator>>: skip leading whitespace from position i.
RECURSIVE SkipWs(_, _)
SkipWs(s, i) ==
  IF i <= Len(s) /\ s[i] \in Whitespace THEN SkipWs(s, i + 1) ELSE i

\* First index at or after i that does not hold a digit.
RECURSIVE DigitRun(_, _)
DigitRun(s, i) ==
  IF i <= Len(s) /\ s[i] \in Digits THEN DigitRun(s, i + 1) ELSE i

\* The number written by the digits s[a..b-1] (0 for an empty range).
RECURSIVE NumOf(_, _, _)
NumOf(s, a, b) ==
  IF b <= a THEN 0 ELSE 10 * NumOf(s, a, b - 1) + DigitVal(s[b - 1])

\* A decimal value m * 10^e, kept in lowest terms so that equal numbers are
\* equal values ("1.0", "1" and "10e-1" are the same LinearScore).
RECURSIVE Normalise(_, _, _)
Normalise(neg, m, e) ==
  IF m = 0 THEN [neg |-> FALSE, m |-> 0, e |-> 0]
  ELSE IF m % 10 = 0 THEN Normalise(neg, m \div 10, e + 1)
  ELSE [neg |-> neg, m |-> m, e |-> e]

\* strtod on the extracted characters, with libstdc++'s sanity check that the
\* conversion consumed all of them: [ok, val].
StrToD(x) ==
  LET p0 == IF 1 <= Len(x) /\ IsSign(x[1]) THEN 2 ELSE 1
      neg == 1 <= Len(x) /\ x[1] = "-"
      p1 == DigitRun(x, p0)
      hasDot == p1 <= Len(x) /\ x[p1] = "."
      f0 == IF hasDot THEN p1 + 1 ELSE p1
      f1 == DigitRun(x, f0)
      hasMant == (p1 > p0) \/ (f1 > f0)
      hasExp == f1 <= Len(x) /\ x[f1] \in {"e", "E"}
      s0 == IF hasExp /\ f1 + 1 <= Len(x) /\ IsSign(x[f1 + 1])
            THEN f1 + 2 ELSE f1 + 1
      eneg == hasExp /\ f1 + 1 <= Len(x) /\ x[f1 + 1] = "-"
      s1 == IF hasExp THEN DigitRun(x, s0) ELSE f1
      expOk == (~hasExp) \/ (s1 > s0)
      ex == IF hasExp /\ expOk
            THEN (IF eneg THEN 0 - NumOf(x, s0, s1) ELSE NumOf(x, s0, s1))
            ELSE 0
      mant == NumOf(SubSeq(x, p0, p1 - 1) \o SubSeq(x, f0, f1 - 1), 1,
                    (p1 - p0) + (f1 - f0) + 1)
  IN  IF hasMant /\ expOk /\ s1 = Len(x) + 1
      THEN [ok |-> TRUE, val |-> Normalise(neg, mant, ex - (f1 - f0))]
      ELSE [ok |-> FALSE, val |-> Normalise(FALSE, 0, 0)]

\* num_get::_M_extract_float, leading zeros: only the first one is kept.
RECURSIVE ScanZeros(_, _)
ScanZeros(s, sc) ==
  IF sc.i <= Len(s) /\ s[sc.i] = "0"
  THEN ScanZeros(s, [sc EXCEPT !.i = @ + 1,
                               !.xtrc = IF sc.mant THEN @ ELSE Append(@, "0"),
                               !.mant = TRUE])
  ELSE sc

\* num_get::_M_extract_float, the main loop: digits, one decimal point before
\* any exponent, one exponent mark after a mantissa digit with its optional
\* sign; the first character that fits none of these ends the field.
RECURSIVE ScanDigits(_, _)
ScanDigits(s, sc) ==
  IF sc.i > Len(s) THEN sc
  ELSE LET c == s[sc.i] IN
    IF c \in Digits
    THEN ScanDigits(s, [sc EXCEPT !.i = @ + 1, !.xtrc = Append(@, c),
                                  !.mant = TRUE])
    ELSE IF c = "." /\ ~sc.dec /\ ~sc.sci
    THEN ScanDigits(s, [sc EXCEPT !.i = @ + 1, !.xtrc = Append(@, "."),
                                  !.dec = TRUE])
    ELSE IF c \in {"e", "E"} /\ ~sc.sci /\ sc.mant
    THEN LET j == sc.i + 1 IN
         IF j <= Len(s) /\ IsSign(s[j])
         THEN ScanDigits(s, [sc EXCEPT !.i = j + 1,
                                       !.xtrc = @ \o <<"e", s[j]>>,
                                       !.sci = TRUE])
         ELSE ScanDigits(s, [sc EXCEPT !.i = j, !.xtrc = Append(@, "e"),
                                       !.sci = TRUE])
    ELSE sc

\* The field operator>> reads at position i (whitespace already skipped):
\* the characters taken (xtrc) and the position reached (i); the stream's
\* eofbit is set exactly when i is past the end of the string.
ExtractFloat(s, i) ==
  LET sgn == i <= Len(s) /\ IsSign(s[i]) IN
  ScanDigits(s, ScanZeros(s,
    [i |-> IF sgn THEN i + 1 ELSE i,
     xtrc |-> IF sgn THEN <<s[i]>> ELSE <<>>,
     mant |-> FALSE, dec |-> FALSE, sci |-> FALSE]))

\* ParseConfidences: the loop `while (parser >> score) push_back(score)` from
\* position i with acc pushed so far, then `if (!parser.eof()) throw`.
\* threw: BadConfidence was raised; confidences: the vector as it is left.
RECURSIVE ParseLoop(_, _, _)
ParseLoop(s, i, acc) ==
  LET j == SkipWs(s, i) IN
  IF j > Len(s)
  THEN [threw |-> FALSE, confidences |-> acc]
  ELSE LET sc == ExtractFloat(s, j)
           cv == StrToD(sc.xtrc)
       IN  IF cv.ok
           THEN ParseLoop(s, sc.i, Append(acc, cv.val))
           ELSE [threw |-> ~(sc.i > Len(s)), confidences |-> acc]

\* A variant of ParseConfidences: the vector is not cleared first.
ParseConfidences_NoClear(as_string, confidences) ==
  ParseLoop(as_string, 1, confidences)

\* confidences.clear() comes first: what the vector held before is dropped.
ParseConfidences(as_string, confidences) ==
  ParseLoop(as_string, 1, SubSeq(confidences, 1, 0))

(***************************************************************************)
(* The request grammar: QueryConfigParser's option table.                  *)
(***************************************************************************)
\* A string as the sequence of its characters is written out where needed:
\* the nominal confidence string "0.9 0.8 0.95" of the specification's scenario.
NominalConfidence ==
  <<"0", ".", "9", " ", "0", ".", "8", " ", "0", ".", "9", "5">>

\* desc_.add_options(): key, the member po::value() stores to, the value type,
\* and the default_value() when one is declared.  Source order.
QueryOptions == <<
  [key |-> "score.lm", target |-> "decoder.scorer.lm", type |-> "float",
   hasDefault |-> FALSE, default |-> ""],
  [key |-> "score.alignment", target |-> "decoder.scorer.alignment",
   type |-> "float", hasDefault |-> FALSE, default |-> ""],
  [key |-> "score.ngram", target |-> "decoder.scorer.ngram", type |-> "float",
   hasDefault |-> FALSE, default |-> ""],
  [key |-> "score.ngram_base", target |-> "decoder.scorer.ngram_base",
   type |-> "float", hasDefault |-> TRUE, default |-> "LogScore(1.0/3.0)"],
  [key |-> "score.overlap", target |-> "decoder.scorer.overlap",
   type |-> "float", hasDefault |-> FALSE, default |-> ""],
  [key |-> "score.fuzz.ratio", target |-> "decoder.scorer.fuzz.ratio",
   type |-> "float", hasDefault |-> TRUE, default |-> "0.0"],
  [key |-> "beam_size", target |-> "decoder.internal_beam_size",
   type |-> "uint", hasDefault |-> TRUE, default |-> "500"],
  [key |-> "length_normalize", target |-> "decoder.length_normalize",
   type |-> "bool", hasDefault |-> TRUE, default |-> "true"],
  [key |-> "output.nbest", target |-> "decoder.end_beam_size",
   type |-> "uint", hasDefault |-> TRUE, default |-> "1"],
  [key |-> "horizon.radius", target |-> "decoder.coverage.old_horizon",
   type |-> "uint", hasDefault |-> TRUE, default |-> "5"],
  [key |-> "horizon.new", target |-> "decoder.coverage.use_new",
   type |-> "bool", hasDefault |-> TRUE, default |-> "false"],
  [key |-> "horizon.threshold", target |-> "decoder.coverage.stay_threshold",
   type |-> "float", hasDefault |-> TRUE, default |-> "0.8"],
  [key |-> "output.oracle_prefix", target |-> "output_oracle_prefix",
   type |-> "string", hasDefault |-> TRUE, default |-> ""],
  [key |-> "output.one_best", target |-> "output_one_best",
   type |-> "string", hasDefault |-> FALSE, default |-> ""],
  [key |-> "input.matched_file", target |-> "input_matched",
   type |-> "string", hasDefault |-> FALSE, default |-> ""],
  [key |-> "input.confidence", target |-> "confidence_string_",
   type |-> "string", hasDefault |-> FALSE, default |-> ""],
  [key |-> "align.pick_best", target |-> "text.pick_best", type |-> "bool",
   hasDefault |-> TRUE, default |-> "false"],
  [key |-> "align.transitive", target |-> "text.transitive", type |-> "bool",
   hasDefault |-> TRUE, default |-> "false"] >>

OptionIdx == 1..Len(QueryOptions)

QueryKeys == {QueryOptions[i].key : i \in OptionIdx}

Option(k) == QueryOptions[CHOOSE i \in OptionIdx : QueryOptions[i].key = k]

\* A variant of mandatory_options: score.overlap is left out of the array.
mandatory_options_NoOverlap == <<"score.lm", "score.alignment", "score.ngram",
                                 "output.one_best", "input.matched_file",
                                 "input.confidence">>

\* Parse's mandatory_options array, in its order.
mandatory_options == <<"score.lm", "score.alignment", "score.ngram",
                       "score.overlap", "output.one_best",
                       "input.matched_file", "input.confidence">>

MandatoryKeys == {mandatory_options[i] : i \in 1..Len(mandatory_options)}

OptionalKeys == QueryKeys \ MandatoryKeys

\* The members of QueryConfig (struct QueryConfig and the members of
\* input::Config and DecoderConfig the server names).
ConfigFields ==
  ({QueryOptions[i].target : i \in OptionIdx} \ {"confidence_string_"})
    \cup {"text.confidences", "text.horizon_radius"}

\* A member no constructor of this file sets holds no determinate value.
Indeterminate == "<indeterminate>"

\* QueryConfig as QueryConfigParser's constructor leaves it: strings and the
\* confidence vector are empty, the scalar members are not set.
InitialConfig ==
  [f \in ConfigFields |->
     IF f \in {"output_oracle_prefix", "output_one_best", "input_matched"}
     THEN ""
     ELSE IF f = "text.confidences" THEN <<>>
     ELSE Indeterminate]

(***************************************************************************)
(* Exceptions.  class is the dynamic type; the catch clauses select on it. *)
(***************************************************************************)
NoException == [class |-> "none", what |-> ""]

\* ArgumentCountException's constructor builds what_.
ArgumentCountException(key, expected, times) ==
  [class |-> "ArgumentCountException",
   what |-> "Expected " \o key \o " >= " \o ToString(expected)
            \o " times, got it " \o ToString(times) \o "."]

\* BadConfidence::what() is the string that was provided.
BadConfidence(provided) ==
  [class |-> "BadConfidence", what |-> Str(provided)]

\* NoSuchLMError declares what() without const, so it does not override
\* std::exception::what(); the message built in what_ is never the one shown.
NoSuchLMError(type) ==
  [class |-> "NoSuchLMError", what |-> "std::exception"]

\* Exceptions of the libraries and of the decoder; all derive from
\* std::exception and none from ArgumentParseError.
LibraryError(class, what) == [class |-> class, what |-> what]

\* `catch (ArgumentParseError &e)` matches exactly the classes derived from it.
IsArgumentParseError(e) ==
  e.class \in {"ArgumentCountException", "BadConfidence", "NoSuchLMError"}

(***************************************************************************)
(* boost::program_options as Parse uses it.                                *)
(***************************************************************************)
\* A token lexical_cast rejects for every non-string type.
BadToken == "abc"

\* The number a port token writes.
PortNumber(token) ==
  CASE token = "9000" -> 9000
    [] token = "40000" -> 40000

\* short int as boost::lexical_cast<short> takes it.
ShortRange == -32768..32767

Castable(type, v) ==
  \/ type = "string"
  \/ type = "short" /\ PortNumber(v) \in ShortRange
  \/ type \notin {"string", "short"} /\ v # BadToken

EmptyMap == [k \in {} |-> ""]

\* po::store over the parsed lines in order: a second occurrence of a
\* non-composing option raises multiple_occurrences (check_first_occurrence),
\* a value its type cannot take raises invalid_option_value.
RECURSIVE StoreFrom(_, _, _, _)
StoreFrom(options, lines, i, vm) ==
  IF i > Len(lines) THEN [error |-> NoException, vm |-> vm]
  ELSE LET l == lines[i]
           o == options[CHOOSE n \in 1..Len(options) : options[n].key = l.key]
       IN
    IF l.key \in DOMAIN vm
    THEN [error |-> LibraryError("po::multiple_occurrences",
                                 "multiple_occurrences"),
          vm |-> vm]
    ELSE IF ~Castable(o.type, l.value)
    THEN [error |-> LibraryError("po::invalid_option_value",
                                 "invalid option value"),
          vm |-> vm]
    ELSE StoreFrom(options, lines, i + 1, vm @@ (l.key :> l.value))

\* A variant of ApplyDefaults: the declared defaults are never applied.
ApplyDefaults_None(options, vm) == vm

\* The second half of po::store: every option that declares a default and
\* was not given gets its default in the variables_map.
ApplyDefaults(options, vm) ==
  LET defaulted == {n \in 1..Len(options) :
                      options[n].hasDefault /\ options[n].key \notin DOMAIN vm}
  IN  [k \in DOMAIN vm \cup {options[n].key : n \in defaulted} |->
         IF k \in DOMAIN vm THEN vm[k]
         ELSE options[CHOOSE n \in defaulted : options[n].key = k].default]

\* po::parse_config_file then po::store: an unregistered key raises
\* unknown_option before anything is stored.
Store(options, lines) ==
  LET keys == {options[n].key : n \in 1..Len(options)} IN
  IF \E i \in 1..Len(lines) : lines[i].key \notin keys
  THEN [error |-> LibraryError("po::unknown_option", "unknown option"),
        vm |-> EmptyMap]
  ELSE LET st == StoreFrom(options, lines, 1, EmptyMap) IN
       IF st.error # NoException THEN st
       ELSE [error |-> NoException, vm |-> ApplyDefaults(options, st.vm)]

\* po::variables_map::count: the map holds a key at most once.
Count(vm, key) == IF key \in DOMAIN vm THEN 1 ELSE 0

\* CheckOnce: the first key of the array whose count is not 1 raises.
RECURSIVE CheckOnce(_, _, _)
CheckOnce(vm, keys, i) ==
  IF i > Len(keys) THEN NoException
  ELSE IF Count(vm, keys[i]) # 1
  THEN ArgumentCountException(keys[i], 1, Count(vm, keys[i]))
  ELSE CheckOnce(vm, keys, i + 1)

\* po::notify: each value in the map is written to the member registered
\* for its option; members of options absent from the map keep their value.
NotifyConfig(vm, config) ==
  [f \in ConfigFields |->
     IF \E k \in DOMAIN vm : Option(k).target = f
     THEN vm[CHOOSE k \in DOMAIN vm : Option(k).target = f]
     ELSE config[f]]

\* A variant of NotifyConfidence: the member is written only while it is
\* empty, so the first request's string stays.
NotifyConfidence_Stale(vm, confidence_string) ==
  IF confidence_string = << >> /\ "input.confidence" \in DOMAIN vm
  THEN vm["input.confidence"]
  ELSE confidence_string

NotifyConfidence(vm, confidence_string) ==
  IF "input.confidence" \in DOMAIN vm THEN vm["input.confidence"]
  ELSE confidence_string

\* The result of Parse: the parser object as it is left, and the exception
\* that left Parse, if any.
ParseResult(config, confidence_string, e) ==
  [config |-> config, confidence_string |-> confidence_string, exc |-> e]

\* A variant of ParseFromConfidences: the horizon radius is not copied.
ParseFromConfidences_NoCopy(config, confidence_string, parsed) ==
  IF parsed.threw
  THEN ParseResult([config EXCEPT !["text.confidences"] = parsed.confidences],
                   confidence_string, BadConfidence(confidence_string))
  ELSE ParseResult([config EXCEPT
                      !["text.confidences"] = parsed.confidences],
                   confidence_string, NoException)

\* Parse from ParseConfidences on: the vector is written in place, so a
\* throw leaves what was pushed; then the horizon radius is copied.
ParseFromConfidences(config, confidence_string, parsed) ==
  IF parsed.threw
  THEN ParseResult([config EXCEPT !["text.confidences"] = parsed.confidences],
                   confidence_string, BadConfidence(confidence_string))
  ELSE ParseResult([config EXCEPT
                      !["text.confidences"] = parsed.confidences,
                      !["text.horizon_radius"] =
                          config["decoder.coverage.old_horizon"]],
                   confidence_string, NoException)

\* A variant of ParseFromCheckOnce: ParseConfidences runs before the result
\* of CheckOnce is looked at.
ParseFromCheckOnce_ConfidencesFirst(config, confidence_string, once) ==
  LET r == ParseFromConfidences(config, confidence_string,
             ParseConfidences(confidence_string, config["text.confidences"]))
  IN  IF r.exc # NoException \/ once = NoException THEN r
      ELSE ParseResult(r.config, confidence_string, once)

\* Parse from CheckOnce on, with the members po::notify has written.
ParseFromCheckOnce(config, confidence_string, once) ==
  IF once # NoException
  THEN ParseResult(config, confidence_string, once)
  ELSE ParseFromConfidences(config, confidence_string,
         ParseConfidences(confidence_string, config["text.confidences"]))

\* Parse from po::notify on, with what po::store returned.
ParseFromNotify(st, config, confidence_string) ==
  IF st.error # NoException
  THEN ParseResult(config, confidence_string, st.error)
  ELSE ParseFromCheckOnce(NotifyConfig(st.vm, config),
                          NotifyConfidence(st.vm, confidence_string),
                          CheckOnce(st.vm, mandatory_options, 1))

\* QueryConfigParser::Parse on the parser object (config, confidence_string)
\* reading the lines of stream.
Parse(stream, config, confidence_string) ==
  ParseFromNotify(Store(QueryOptions, stream), config, confidence_string)

\* What Parse prints on std::cout when it returns: the matched-input file
\* (the two configurations that follow it are printed from the same object).
ParseEcho(config) == "input.matched_file = " \o config["input_matched"]

(***************************************************************************)
(* Start-up: ParseService.                                                 *)
(***************************************************************************)
\* ParseService's option table.  The port is a short int.
ServiceOptions == <<
  [key |-> "lm.type", target |-> "lm.type", type |-> "string",
   hasDefault |-> TRUE, default |-> "salm"],
  [key |-> "lm.file", target |-> "lm.file", type |-> "string",
   hasDefault |-> FALSE, default |-> ""],
  [key |-> "lm.order", target |-> "lm.order", type |-> "uint",
   hasDefault |-> FALSE, default |-> ""],
  [key |-> "port", target |-> "port", type |-> "short",
   hasDefault |-> FALSE, default |-> ""] >>

ServiceKeys == {ServiceOptions[i].key : i \in 1..Len(ServiceOptions)}

\* ParseService's mandatory_options array.
service_mandatory_options == <<"lm.file", "lm.order", "port">>

\* ServiceConfig as main declares it: nothing is set yet.
InitialService ==
  [k \in ServiceKeys |-> IF k \in {"lm.type", "lm.file"} THEN ""
                         ELSE Indeterminate]

\* A variant of ParseService: the language-model type is not looked at.
ParseService_NoTypeCheck(args, config) ==
  LET st == Store(ServiceOptions, args) IN
  IF st.error # NoException THEN [config |-> config, exc |-> st.error]
  ELSE
    LET c1 == [k \in ServiceKeys |->
                 IF k \in DOMAIN st.vm THEN st.vm[k] ELSE config[k]]
        once == CheckOnce(st.vm, service_mandatory_options, 1)
    IN  [config |-> c1, exc |-> once]

\* ParseService: the ServiceConfig it fills in and the exception that leaves
\* it, if any.
ParseService(args, config) ==
  LET st == Store(ServiceOptions, args) IN
  IF st.error # NoException THEN [config |-> config, exc |-> st.error]
  ELSE
    LET c1 == [k \in ServiceKeys |->
                 IF k \in DOMAIN st.vm THEN st.vm[k] ELSE config[k]]
        once == CheckOnce(st.vm, service_mandatory_options, 1)
    IN
    IF once # NoException THEN [config |-> c1, exc |-> once]
    ELSE IF c1["lm.type"] # "salm" /\ c1["lm.type"] # "sri"
    THEN [config |-> c1, exc |-> NoSuchLMError(c1["lm.type"])]
    ELSE [config |-> c1, exc |-> NoException]

\* tcp::endpoint takes an unsigned short: the short int converts modulo 2^16.
EndpointPort(port) == port % 65536

(***************************************************************************)
(* Decode dispatch: RunDecoder.                                            *)
(***************************************************************************)
\* The files requests name.  The matched-input files hold this many input
\* units (what InputFactory::Make produces before it reports exhaustion).
InputUnits(path) ==
  CASE path = "/tmp/in.txt" -> 2
    [] path = "/tmp/in2.txt" -> 1
    [] OTHER -> 0

OutputPaths == {"/tmp/out.txt", "/tmp/out2.txt"}

\* What an output file holds before any request: earlier content.
InitialFiles == [f \in OutputPaths |-> <<"earlier content">>]

\* A variant of DecodeLoop: the oracle result is written for every unit,
\* whatever the prefix.
RECURSIVE DecodeLoop_OracleAlways(_, _, _, _, _)
DecodeLoop_OracleAlways(i, n, oracle, failAt, acc) ==
  IF i > n THEN [events |-> acc, threw |-> FALSE]
  ELSE IF i = failAt
  THEN [events |-> Append(acc, [op |-> "decoder.Run", unit |-> i]),
        threw |-> TRUE]
  ELSE DecodeLoop_OracleAlways(i + 1, n, oracle, failAt,
         acc \o << [op |-> "decoder.Run", unit |-> i],
                   [op |-> "top.Write", unit |-> i],
                   [op |-> "oracle.Write", unit |-> i] >>)

\* The loop of RunDecoder from unit i of n: decoder.Run, top.Write, and
\* oracle.Write when the oracle prefix is not empty.  failAt is the unit whose
\* decoder.Run throws (0: none does).
RECURSIVE DecodeLoop(_, _, _, _, _)
DecodeLoop(i, n, oracle, failAt, acc) ==
  IF i > n THEN [events |-> acc, threw |-> FALSE]
  ELSE IF i = failAt
  THEN [events |-> Append(acc, [op |-> "decoder.Run", unit |-> i]),
        threw |-> TRUE]
  ELSE DecodeLoop(i + 1, n, oracle, failAt,
         acc \o << [op |-> "decoder.Run", unit |-> i],
                   [op |-> "top.Write", unit |-> i] >>
             \o (IF oracle THEN << [op |-> "oracle.Write", unit |-> i] >>
                 ELSE << >>))

TopWrites(events) ==
  SelectSeq(events, LAMBDA e : e.op = "top.Write")

\* RunDecoder(model, config) on the file system files: std::ofstream opens
\* the one-best file for output, which truncates it, before the loop.
RunDecoder(lm, config, files, failAt) ==
  LET loop == DecodeLoop(1, InputUnits(config["input_matched"]),
                         config["output_oracle_prefix"] # "", failAt, << >>)
      path == config["output_one_best"]
  IN  [files |-> [f \in DOMAIN files |->
                    IF f = path THEN TopWrites(loop.events) ELSE files[f]],
       events |-> << [op |-> "one_best.open", unit |-> 0] >> \o loop.events,
       exc |-> IF loop.threw
               THEN LibraryError("std::runtime_error", "decoder failure")
               ELSE NoException]

(***************************************************************************)
(* Inputs: command lines and requests, as the nominal ones of the          *)
(* specification's scenario changed by a few edits.                        *)
(***************************************************************************)
\* An edit changes the lines of one key: omit drops them, twice repeats the
\* line, set gives the key another value (adding the line if the nominal
\* input has none), add appends a line as it stands.
Edit(op, key, value) == [op |-> op, key |-> key, value |-> value]

\* A choice of at most k of the edits listed in seq: the places chosen, in
\* increasing order, then zeros.  No two chosen edits are on one key.
EditChoices(seq, k) ==
  {f \in [1..k -> 0..Len(seq)] :
     /\ \A i \in 1..(k - 1) : f[i + 1] = 0 \/ (f[i] # 0 /\ f[i] < f[i + 1])
     /\ \A i, j \in 1..k :
          (i < j /\ f[i] # 0 /\ f[j] # 0) => seq[f[i]].key # seq[f[j]].key}

Chosen(seq, f) == {seq[f[i]] : i \in {j \in DOMAIN f : f[j] # 0}}

\* Confidence strings requests carry besides the nominal one.
ConfidenceSamples ==
  [residue |-> <<"0", ".", "9", " ", "a", "b", "c">>,
   lone_sign |-> <<"0", ".", "9", " ", "-">>,
   incomplete |-> <<"0", ".", "9", " ", "1", "e">>,
   padded |-> <<" ", "0", ".", "5", " ">>,
   empty |-> << >>]

LineValue(key, value) ==
  IF key = "input.confidence" THEN ConfidenceSamples[value] ELSE value

\* The lines of the options from the i-th on, in option order.
RECURSIVE LinesFrom(_, _, _, _)
LinesFrom(options, i, base, E) ==
  IF i > Len(options) THEN << >>
  ELSE
    LET k == options[i].key
        sets == {e \in E : e.key = k /\ e.op = "set"}
        line == IF sets # {}
                THEN << [key |-> k,
                         value |-> LineValue(k, (CHOOSE e \in sets : TRUE).value)] >>
                ELSE IF k \in DOMAIN base
                THEN << [key |-> k, value |-> base[k]] >>
                ELSE << >>
        mine == IF \E e \in E : e.key = k /\ e.op = "omit" THEN << >>
                ELSE IF \E e \in E : e.key = k /\ e.op = "twice"
                THEN line \o line
                ELSE line
    IN  mine \o LinesFrom(options, i + 1, base, E)

RECURSIVE AddedLines(_)
AddedLines(adds) ==
  IF adds = {} THEN << >>
  ELSE LET e == CHOOSE x \in adds : TRUE IN
       << [key |-> e.key, value |-> e.value] >> \o AddedLines(adds \ {e})

Lines(options, base, E) ==
  LinesFrom(options, 1, base, E) \o AddedLines({e \in E : e.op = "add"})

\* The scenario's command line.
NominalArgs ==
  [k \in ServiceKeys |->
     CASE k = "lm.type" -> "salm" [] k = "lm.file" -> "model.salm"
       [] k = "lm.order" -> "3" [] k = "port" -> "9000"]

ArgEdits ==
  << Edit("omit", "lm.type", ""), Edit("omit", "lm.file", ""),
     Edit("omit", "lm.order", ""), Edit("omit", "port", ""),
     Edit("twice", "lm.type", ""), Edit("twice", "lm.file", ""),
     Edit("twice", "lm.order", ""), Edit("twice", "port", ""),
     Edit("set", "lm.type", "sri"), Edit("set", "lm.type", "srilm"),
     Edit("set", "port", "40000") >>

\* The scenario's request.
NominalRequest ==
  [k \in MandatoryKeys |->
     CASE k = "output.one_best" -> "/tmp/out.txt"
       [] k = "input.matched_file" -> "/tmp/in.txt"
       [] k = "input.confidence" -> NominalConfidence
       [] OTHER -> "1.0"]

\* Another value for each key.
OtherValue(k) ==
  CASE k = "score.ngram_base" -> "LogScore(0.5)"
    [] k = "score.fuzz.ratio" -> "0.1"
    [] k = "beam_size" -> "100"
    [] k = "output.nbest" -> "10"
    [] k = "horizon.radius" -> "3"
    [] k = "horizon.threshold" -> "0.5"
    [] k = "output.oracle_prefix" -> "/tmp/oracle"
    [] k = "output.one_best" -> "/tmp/out2.txt"
    [] k = "input.matched_file" -> "/tmp/in2.txt"
    [] k = "length_normalize" -> "false"
    [] Option(k).type = "bool" -> "true"
    [] OTHER -> "2.0"

RequestEdits ==
  [i \in 1..Len(mandatory_options) |-> Edit("omit", mandatory_options[i], "")]
    \o [i \in 1..Len(mandatory_options) |->
          Edit("twice", mandatory_options[i], "")]
    \o SelectSeq([i \in OptionIdx |->
                    Edit("set", QueryOptions[i].key,
                         OtherValue(QueryOptions[i].key))],
                 LAMBDA e : e.key # "input.confidence")
    \o << Edit("set", "input.confidence", "residue"),
          Edit("set", "input.confidence", "lone_sign"),
          Edit("set", "input.confidence", "incomplete"),
          Edit("set", "input.confidence", "padded"),
          Edit("set", "input.confidence", "empty"),
          Edit("add", "bogus.key", "1"),
          Edit("add", "beam_size", BadToken) >>

(***************************************************************************)
(* The state of the process and of what it talks to.                       *)
(***************************************************************************)
VARIABLES
  pc,                  \* where control is: main, load, bind, accept, parse,
                       \* decode, done, inner_catch, outer_catch, terminated
  argv,                \* the command line, as lines key/value
  service_config,      \* main's ServiceConfig
  model,               \* the language model the Owner holds: none, sri, salm
  loads,               \* how many times a model was loaded
  acceptor,            \* the listening socket: open, and on which port
  config_,             \* QueryConfigParser::config_
  confidence_string_,  \* QueryConfigParser::confidence_string_
  conn,                \* connections accepted so far
  stream,              \* what the client of the connection in hand sent
  response,            \* what was written to that client
  exc,                 \* the exception in flight or last caught
  dispatched,          \* the calls of RunDecoder for the connection in hand
  events,              \* what RunDecoder did for the connection in hand
  files,               \* the one-best output files
  cerr,                \* the operator's log since the last accept
  cout,                \* what Parse echoed on standard output since then
  history,             \* how each finished round of the loop ended
  supplied,            \* the optional keys earlier connections gave
  deviations,          \* departures from the nominal run taken so far
  call_state,          \* ParseConfidences called on its own: idle, pending,
                       \* returned, threw
  call_string,         \* its argument as_string
  call_vector          \* its argument confidences

server_vars == <<pc, argv, service_config, model, loads, acceptor, config_,
                 confidence_string_, conn, stream, response, exc, dispatched,
                 events, files, cerr, cout, history, supplied,
                 deviations>>

call_vars == <<call_state, call_string, call_vector>>

vars == <<server_vars, call_vars>>

\* The process before main runs ParseService, for the command line args.
ProcessStart(args, edits) ==
  /\ pc = "main"
  /\ argv = args
  /\ service_config = InitialService
  /\ model = "none"
  /\ loads = 0
  /\ acceptor = [open |-> FALSE, port |-> 0]
  /\ config_ = InitialConfig
  /\ confidence_string_ = << >>
  /\ conn = 0
  /\ stream = << >>
  /\ response = << >>
  /\ exc = NoException
  /\ dispatched = << >>
  /\ events = << >>
  /\ files = InitialFiles
  /\ cerr = << >>
  /\ cout = << >>
  /\ history = << >>
  /\ supplied = {}
  /\ deviations = edits

Init ==
  /\ \E f \in EditChoices(ArgEdits, MaxDeviations) :
       LET E == Chosen(ArgEdits, f) IN
         ProcessStart(Lines(ServiceOptions, NominalArgs, E), Cardinality(E))
  /\ call_state = "idle"
  /\ call_string = << >>
  /\ call_vector = << >>

(***************************************************************************)
(* main and LoadAndRunService.                                             *)
(***************************************************************************)
\* main: ParseService(argc, argv, config).  An exception leaves main
\* uncaught and the process terminates.
CallParseService ==
  /\ pc = "main"
  /\ \E r \in {ParseService(argv, service_config)} :
       /\ service_config' = r.config
       /\ exc' = r.exc
       /\ pc' = IF r.exc = NoException THEN "load" ELSE "terminated"
  /\ UNCHANGED <<argv, model, loads, acceptor, config_, confidence_string_,
                 conn, stream, response, dispatched, events, files, cerr,
                 cout, history, supplied, deviations, call_vars>>

\* A variant of LoadModel: the salm Owner is constructed whatever the type.
LoadModel_AlwaysSalm ==
  /\ pc = "load"
  /\ model' = "salm"
  /\ loads' = loads + 1
  /\ pc' = "bind"
  /\ UNCHANGED <<argv, service_config, acceptor, config_, confidence_string_,
                 conn, stream, response, exc, dispatched, events, files, cerr,
                 cout, history, supplied, deviations, call_vars>>

\* LoadAndRunService: the Owner of the selected type is constructed.  With
\* a type that is neither, it returns at once and main returns.
LoadModel ==
  /\ pc = "load"
  /\ IF service_config["lm.type"] \in {"sri", "salm"}
     THEN /\ model' = service_config["lm.type"]
          /\ loads' = loads + 1
          /\ pc' = "bind"
     ELSE /\ UNCHANGED <<model, loads>>
          /\ pc' = "exited"
  /\ UNCHANGED <<argv, service_config, acceptor, config_, confidence_string_,
                 conn, stream, response, exc, dispatched, events, files, cerr,
                 cout, history, supplied, deviations, call_vars>>

\* The Owner's constructor throws: nothing catches it.
LoadModelFails ==
  /\ pc = "load"
  /\ deviations < MaxDeviations
  /\ deviations' = deviations + 1
  /\ exc' = LibraryError("std::runtime_error", "model load failure")
  /\ pc' = "terminated"
  /\ UNCHANGED <<argv, service_config, model, loads, acceptor, config_,
                 confidence_string_, conn, stream, response, dispatched,
                 events, files, cerr, cout, history, supplied, call_vars>>

\* RunLoadedService up to the loop: the parser is constructed, the acceptor
\* is opened on the port, "Accepting connections." is logged.
OpenAcceptor ==
  /\ pc = "bind"
  /\ config_' = InitialConfig
  /\ confidence_string_' = << >>
  /\ acceptor' = [open |-> TRUE, port |-> EndpointPort(PortNumber(service_config["port"]))]
  /\ cerr' = Append(cerr, "Accepting connections.")
  /\ pc' = "accept"
  /\ UNCHANGED <<argv, service_config, model, loads, conn, stream, response,
                 exc, dispatched, events, files, cout, history, supplied, deviations,
                 call_vars>>

\* The acceptor's constructor throws (the port is taken): outside the loop,
\* nothing catches it.
OpenAcceptorFails ==
  /\ pc = "bind"
  /\ deviations < MaxDeviations
  /\ deviations' = deviations + 1
  /\ exc' = LibraryError("boost::system::system_error", "bind")
  /\ pc' = "terminated"
  /\ UNCHANGED <<argv, service_config, model, loads, acceptor, config_,
                 confidence_string_, conn, stream, response, dispatched,
                 events, files, cerr, cout, history, supplied, call_vars>>

(***************************************************************************)
(* RunLoadedService: the accept loop.                                      *)
(***************************************************************************)
\* A variant of Accept: the next client is accepted while the decoder still
\* runs for the one in hand.
Accept_WhileDecoding ==
  /\ pc \in {"accept", "decode"}
  /\ conn < MaxConns
  /\ \E f \in EditChoices(RequestEdits, MaxDeviations - deviations) :
       LET E == Chosen(RequestEdits, f) IN
         /\ stream' = Lines(QueryOptions, NominalRequest, E)
         /\ deviations' = deviations + Cardinality(E)
  /\ conn' = conn + 1
  /\ response' = << >>
  /\ exc' = NoException
  /\ dispatched' = << >>
  /\ events' = << >>
  /\ cerr' = <<"Got connection ">>
  /\ cout' = << >>
  /\ supplied' = supplied \cup
                   {k \in OptionalKeys : \E i \in 1..Len(stream) : stream[i].key = k}
  /\ pc' = "parse"
  /\ UNCHANGED <<argv, service_config, model, loads, acceptor, config_,
                 confidence_string_, files, history, call_vars>>

\* acceptor.accept succeeds: a client is connected and what it sends is in
\* the stream; "Got connection " is logged.
Accept ==
  /\ pc = "accept"
  /\ conn < MaxConns
  /\ \E f \in EditChoices(RequestEdits, MaxDeviations - deviations) :
       LET E == Chosen(RequestEdits, f) IN
         /\ stream' = Lines(QueryOptions, NominalRequest, E)
         /\ deviations' = deviations + Cardinality(E)
  /\ conn' = conn + 1
  /\ response' = << >>
  /\ exc' = NoException
  /\ dispatched' = << >>
  /\ events' = << >>
  /\ cerr' = <<"Got connection ">>
  /\ cout' = << >>
  /\ supplied' = supplied \cup
                   {k \in OptionalKeys : \E i \in 1..Len(stream) : stream[i].key = k}
  /\ pc' = "parse"
  /\ UNCHANGED <<argv, service_config, model, loads, acceptor, config_,
                 confidence_string_, files, history, call_vars>>

\* acceptor.accept throws: no client is connected.
AcceptFails ==
  /\ pc = "accept"
  /\ conn < MaxConns
  /\ deviations < MaxDeviations
  /\ deviations' = deviations + 1
  /\ stream' = << >>
  /\ response' = << >>
  /\ dispatched' = << >>
  /\ events' = << >>
  /\ exc' = LibraryError("boost::system::system_error", "accept")
  /\ cerr' = << >>
  /\ cout' = << >>
  /\ pc' = "outer_catch"
  /\ UNCHANGED <<argv, service_config, model, loads, acceptor, config_,
                 confidence_string_, conn, files, history, supplied, call_vars>>

\* A variant of CallParse: whatever leaves Parse, the decoder is run next.
CallParse_Swallow ==
  /\ pc = "parse"
  /\ \E r \in {Parse(stream, config_, confidence_string_)} :
       /\ config_' = r.config
       /\ confidence_string_' = r.confidence_string
       /\ exc' = r.exc
       /\ cout' = IF r.exc = NoException
                  THEN Append(cout, ParseEcho(r.config)) ELSE cout
       /\ pc' = "decode"
  /\ UNCHANGED <<argv, service_config, model, loads, acceptor, conn, stream,
                 response, dispatched, events, files, cerr, history, supplied,
                 deviations, call_vars>>

\* parser.Parse(stream), and stream.clear() when it returns.  An
\* ArgumentParseError goes to the inner handler, anything else to the outer.
CallParse ==
  /\ pc = "parse"
  /\ \E r \in {Parse(stream, config_, confidence_string_)} :
       /\ config_' = r.config
       /\ confidence_string_' = r.confidence_string
       /\ exc' = r.exc
       /\ cout' = IF r.exc = NoException
                  THEN Append(cout, ParseEcho(r.config)) ELSE cout
       /\ pc' = IF r.exc = NoException THEN "decode"
                ELSE IF IsArgumentParseError(r.exc) THEN "inner_catch"
                ELSE "outer_catch"
  /\ UNCHANGED <<argv, service_config, model, loads, acceptor, conn, stream,
                 response, dispatched, events, files, cerr, history, supplied,
                 deviations, call_vars>>

\* RunDecoder(lm.GetModel(), parser.Get()) runs to its end.
CallRunDecoder ==
  /\ pc = "decode"
  /\ \E r \in {RunDecoder(model, config_, files, 0)} :
       /\ files' = r.files
       /\ events' = r.events
  /\ dispatched' = Append(dispatched, [model |-> model, config |-> config_])
  /\ pc' = "done"
  /\ UNCHANGED <<argv, service_config, model, loads, acceptor, config_,
                 confidence_string_, conn, stream, response, exc, cerr, cout,
                 history, supplied, deviations, call_vars>>

\* RunDecoder is left by an exception of the decoder at one of the units.
RunDecoderThrows ==
  /\ pc = "decode"
  /\ deviations < MaxDeviations
  /\ \E failAt \in 1..InputUnits(config_["input_matched"]) :
       \E r \in {RunDecoder(model, config_, files, failAt)} :
         /\ files' = r.files
         /\ events' = r.events
         /\ exc' = r.exc
  /\ deviations' = deviations + 1
  /\ dispatched' = Append(dispatched, [model |-> model, config |-> config_])
  /\ pc' = "outer_catch"
  /\ UNCHANGED <<argv, service_config, model, loads, acceptor, config_,
                 confidence_string_, conn, stream, response, cerr, cout,
                 history, supplied, call_vars>>

\* stream << "Done" << std::endl; the connection closes with the try block.
WriteDone ==
  /\ pc = "done"
  /\ response' = Append(response, "Done")
  /\ history' = Append(history, "done")
  /\ pc' = "accept"
  /\ UNCHANGED <<argv, service_config, model, loads, acceptor, config_,
                 confidence_string_, conn, stream, exc, dispatched, events,
                 files, cerr, cout, deviations, supplied, call_vars>>

\* A variant of InnerCatch: the diagnostic is written and the exception
\* thrown on, out of the loop.
InnerCatch_Rethrows ==
  /\ pc = "inner_catch"
  /\ cerr' = Append(cerr, exc.what)
  /\ response' = Append(response, exc.what)
  /\ history' = Append(history, "validation")
  /\ pc' = "terminated"
  /\ UNCHANGED <<argv, service_config, model, loads, acceptor, config_,
                 confidence_string_, conn, stream, exc, dispatched, events,
                 files, cout, deviations, supplied, call_vars>>

\* A variant of InnerCatch: the handler goes back to parsing the same
\* stream instead of ending the round.
InnerCatch_Retries ==
  /\ pc = "inner_catch"
  /\ pc' = "parse"
  /\ UNCHANGED <<argv, service_config, model, loads, acceptor, config_,
                 confidence_string_, conn, stream, response, exc, dispatched,
                 events, files, cerr, cout, history, deviations, supplied,
                 call_vars>>

\* catch (ArgumentParseError &e): e.what() to std::cerr and to the client.
InnerCatch ==
  /\ pc = "inner_catch"
  /\ cerr' = Append(cerr, exc.what)
  /\ response' = Append(response, exc.what)
  /\ history' = Append(history, "validation")
  /\ pc' = "accept"
  /\ UNCHANGED <<argv, service_config, model, loads, acceptor, config_,
                 confidence_string_, conn, stream, exc, dispatched, events,
                 files, cout, deviations, supplied, call_vars>>

\* A variant of OuterCatch: the failure is logged and the loop is left.
OuterCatch_Exits ==
  /\ pc = "outer_catch"
  /\ cerr' = Append(cerr, exc.what)
  /\ history' = Append(history, "outer")
  /\ pc' = "terminated"
  /\ UNCHANGED <<argv, service_config, model, loads, acceptor, config_,
                 confidence_string_, conn, stream, response, exc, dispatched,
                 events, files, cout, deviations, supplied, call_vars>>

\* A variant of OuterCatch: the failure is also written to the client.
OuterCatch_Replies ==
  /\ pc = "outer_catch"
  /\ cerr' = Append(cerr, exc.what)
  /\ response' = Append(response, exc.what)
  /\ history' = Append(history, "outer")
  /\ pc' = "accept"
  /\ UNCHANGED <<argv, service_config, model, loads, acceptor, config_,
                 confidence_string_, conn, stream, exc, dispatched, events,
                 files, cout, deviations, supplied, call_vars>>

\* catch (std::exception &e): e.what() to std::cerr only.
OuterCatch ==
  /\ pc = "outer_catch"
  /\ cerr' = Append(cerr, exc.what)
  /\ history' = Append(history, "outer")
  /\ pc' = "accept"
  /\ UNCHANGED <<argv, service_config, model, loads, acceptor, config_,
                 confidence_string_, conn, stream, response, exc, dispatched,
                 events, files, cout, deviations, supplied, call_vars>>

Next ==
  \/ CallParseService
  \/ LoadModel
  \/ LoadModelFails
  \/ OpenAcceptor
  \/ OpenAcceptorFails
  \/ Accept
  \/ AcceptFails
  \/ CallParse
  \/ CallRunDecoder
  \/ RunDecoderThrows
  \/ WriteDone
  \/ InnerCatch
  \/ OuterCatch

Spec == Init /\ [][Next]_vars

\* The loop under its progress assumptions.  Every client finishes sending,
\* so parser.Parse(stream) returns or throws and control leaves line 294:
\* ParseEnds is that change of place, which CallParse is the only step of
\* Next to make and which CallParse can make wherever control is at the
\* parse (Parse is total).  Every decode dispatch ends, and the
\* single-threaded process takes the step after each (the write of "Done",
\* either handler): HandlingStep.  Accepting is left to the clients: none
\* has to come.
ParseEnds ==
  /\ pc = "parse"
  /\ pc' \in {"decode", "inner_catch", "outer_catch"}

HandlingStep ==
  \/ CallRunDecoder
  \/ WriteDone
  \/ InnerCatch
  \/ OuterCatch

LoopProgress == WF_pc(ParseEnds) /\ WF_vars(HandlingStep)

FairSpec == Init /\ [][Next]_vars /\ LoopProgress

(***************************************************************************)
(* ParseConfidences called on its own, on every short string.              *)
(***************************************************************************)
\* The characters the enumerated strings are made of.
Alphabet == {"0", "1", ".", "-", "e", " ", "a"}

Strings(n) == UNION {[1..k -> Alphabet] : k \in 0..n}

\* What the vector may hold when ParseConfidences is called.
PriorVectors == {<< >>, <<Normalise(FALSE, 7, 0)>>}

InitCall ==
  /\ ProcessStart(Lines(ServiceOptions, NominalArgs, {}), 0)
  /\ call_state = "pending"
  /\ call_string \in Strings(MaxLen)
  /\ call_vector \in PriorVectors

CallParseConfidences ==
  /\ call_state = "pending"
  /\ \E r \in {ParseConfidences(call_string, call_vector)} :
       /\ call_vector' = r.confidences
       /\ call_state' = IF r.threw THEN "threw" ELSE "returned"
  /\ UNCHANGED <<server_vars, call_string>>

NextCall == CallParseConfidences

SpecCall == InitCall /\ [][NextCall]_vars

(***************************************************************************)
(* Vocabulary of the properties: requests as the client wrote them, what   *)
(* the specification calls a well-formed confidence string, and how a      *)
(* round of the loop ended.                                                *)
(***************************************************************************)
Range(seq) == {seq[i] : i \in 1..Len(seq)}

Last(seq) == seq[Len(seq)]

KeysOf(lines) == {lines[i].key : i \in 1..Len(lines)}

Occurrences(lines, k) == Cardinality({i \in 1..Len(lines) : lines[i].key = k})

ValueOf(lines, k) == lines[CHOOSE i \in 1..Len(lines) : lines[i].key = k].value

\* The whitespace-separated tokens of a string, in order.
RECURSIVE TokensFrom(_, _, _)
TokensFrom(s, i, cur) ==
  IF i > Len(s) THEN (IF cur = << >> THEN << >> ELSE <<cur>>)
  ELSE IF s[i] \in Whitespace
  THEN (IF cur = << >> THEN << >> ELSE <<cur>>) \o TokensFrom(s, i + 1, << >>)
  ELSE TokensFrom(s, i + 1, Append(cur, s[i]))

Tokens(s) == TokensFrom(s, 1, << >>)

\* A complete decimal literal: [sign] (digits [. [digits]] | . digits)
\* [e [sign] digits], recognised by a finite automaton.
LiteralStep(q, c) ==
  CASE q = "start" /\ IsSign(c) -> "signed"
    [] q \in {"start", "signed", "int"} /\ c \in Digits -> "int"
    [] q = "int" /\ c = "." -> "frac"
    [] q \in {"start", "signed"} /\ c = "." -> "dot"
    [] q \in {"dot", "frac"} /\ c \in Digits -> "frac"
    [] q \in {"int", "frac"} /\ c \in {"e", "E"} -> "e"
    [] q = "e" /\ IsSign(c) -> "esigned"
    [] q \in {"e", "esigned", "exp"} /\ c \in Digits -> "exp"
    [] OTHER -> "reject"

RECURSIVE LiteralRun(_, _, _)
LiteralRun(tok, i, q) ==
  IF i > Len(tok) THEN q ELSE LiteralRun(tok, i + 1, LiteralStep(q, tok[i]))

IsNumericLiteral(tok) == LiteralRun(tok, 1, "start") \in {"int", "frac", "exp"}

WellFormedConfidence(s) ==
  \A i \in 1..Len(Tokens(s)) : IsNumericLiteral(Tokens(s)[i])

\* The numbers a well-formed confidence string lists, in order.
ListedNumbers(s) == [i \in 1..Len(Tokens(s)) |-> StrToD(Tokens(s)[i]).val]

\* The option parser takes the block: every key is registered, none is
\* given twice, every value is one its type can take.
BlockAccepted(lines) ==
  \A i \in 1..Len(lines) :
    /\ lines[i].key \in QueryKeys
    /\ Occurrences(lines, lines[i].key) = 1
    /\ Option(lines[i].key).type = "string" \/ lines[i].value # BadToken

\* The keys the request grammar makes mandatory, in its fixed order.
RequiredOrder == <<"score.lm", "score.alignment", "score.ngram",
                   "score.overlap", "output.one_best", "input.matched_file",
                   "input.confidence">>

RequiredKeys == Range(RequiredOrder)

OmittedKeys(lines) == RequiredKeys \ KeysOf(lines)

\* The first mandatory key, in the order of the request grammar, the
\* request omits.
FirstOmitted(lines) ==
  RequiredOrder[CHOOSE i \in 1..Len(RequiredOrder) :
                  /\ RequiredOrder[i] \notin KeysOf(lines)
                  /\ \A j \in 1..(i - 1) : RequiredOrder[j] \in KeysOf(lines)]

WellFormedRequest(lines) ==
  /\ BlockAccepted(lines)
  /\ OmittedKeys(lines) = {}
  /\ WellFormedConfidence(ValueOf(lines, "input.confidence"))

\* The defaults the request grammar declares for the optional keys.
DeclaredDefault(k) ==
  CASE k = "score.ngram_base" -> "LogScore(1.0/3.0)"
    [] k = "score.fuzz.ratio" -> "0.0"
    [] k = "beam_size" -> "500"
    [] k = "length_normalize" -> "true"
    [] k = "output.nbest" -> "1"
    [] k = "horizon.radius" -> "5"
    [] k = "horizon.new" -> "false"
    [] k = "horizon.threshold" -> "0.8"
    [] k = "output.oracle_prefix" -> ""
    [] k = "align.pick_best" -> "false"
    [] k = "align.transitive" -> "false"

\* The value a request by itself gives a key: the supplied one, else the
\* declared default.
Resolved(lines, k) ==
  IF k \in KeysOf(lines) THEN ValueOf(lines, k) ELSE DeclaredDefault(k)

\* The configuration a well-formed request stands for, a function of the
\* request alone.
ExpectedConfig(lines) ==
  [f \in ConfigFields |->
     IF f = "text.confidences"
     THEN ListedNumbers(ValueOf(lines, "input.confidence"))
     ELSE IF f = "text.horizon_radius" THEN Resolved(lines, "horizon.radius")
     ELSE Resolved(lines, CHOOSE k \in QueryKeys : Option(k).target = f)]

\* The key-count diagnostic naming key k seen n times.
CountDiagnostic(k, n) ==
  "Expected " \o k \o " >= 1 times, got it " \o ToString(n) \o "."

\* A client is connected in the round in hand (accept returned).
Connected == cerr # << >> /\ cerr[1] = "Got connection "

\* The round in hand is over and the server is back at accept.
Finished == pc = "accept" /\ history # << >>

\* The decoder itself failed in the round in hand.
DecoderFailed == exc = LibraryError("std::runtime_error", "decoder failure")

LoopPlaces ==
  {"accept", "parse", "decode", "done", "inner_catch", "outer_catch"}

(***************************************************************************)
(* Properties of the service, checked under Spec.                          *)
(***************************************************************************)
\* C1, as the specification states it: for every mandatory key K, a request
\* that omits K is answered with the key-count diagnostic identifying K, and
\* decode is not dispatched.
C1_OmittedKeyIdentified ==
  \A K \in RequiredKeys :
    (Finished /\ Connected /\ K \notin KeysOf(stream)) =>
      /\ response = <<CountDiagnostic(K, 0)>>
      /\ dispatched = << >>

\* C1, as the code has it: a request that omits a mandatory key never has
\* decode dispatched and is never answered "Done".  When the option parser
\* takes the block, the client is answered with the key-count diagnostic of
\* the first mandatory key, in the grammar's order, the request omits (K
\* itself when no earlier one is omitted); when it does not, the failure goes
\* to the outer boundary and the client is written nothing.
C1_FirstOmittedKeyIdentified ==
  (Connected /\ OmittedKeys(stream) # {}) =>
    /\ dispatched = << >>
    /\ events = << >>
    /\ "Done" \notin Range(response)
    /\ Finished =>
         IF BlockAccepted(stream)
         THEN /\ response = <<CountDiagnostic(FirstOmitted(stream), 0)>>
              /\ Last(history) = "validation"
              /\ Last(cerr) = CountDiagnostic(FirstOmitted(stream), 0)
         ELSE /\ response = << >>
              /\ Last(history) = "outer"

\* A round is over in which the request omitted score.overlap alone and the
\* client was told so.
C1_Witness ==
  /\ Finished
  /\ Connected
  /\ OmittedKeys(stream) = {"score.overlap"}
  /\ response = <<CountDiagnostic("score.overlap", 0)>>
  /\ dispatched = << >>

\* C2, as the specification states it: a request valid but for a confidence
\* string that is not a list of numbers is answered with the
\* malformed-confidence diagnostic carrying the string, decode is not
\* dispatched and the one-best file it names is not touched.
C2_MalformedConfidenceRejected ==
  (/\ Finished
   /\ Connected
   /\ BlockAccepted(stream)
   /\ OmittedKeys(stream) = {}
   /\ ~WellFormedConfidence(ValueOf(stream, "input.confidence"))) =>
    /\ response = <<Str(ValueOf(stream, "input.confidence"))>>
    /\ Last(history) = "validation"
    /\ dispatched = << >>
    /\ events = << >>

\* C3: a round that ends in a validation error leaves the server in its
\* loop with the acceptor open, and a well-formed request on the connection
\* right after it is decoded with the configuration that request alone
\* stands for and answered "Done", unless the decoder itself fails.
C3_IsolationAfterValidationError ==
  /\ (history # << >> /\ Last(history) = "validation") =>
       (pc \in LoopPlaces /\ acceptor.open)
  /\ (/\ Finished
      /\ Len(history) >= 2
      /\ history[Len(history) - 1] = "validation"
      /\ Connected
      /\ WellFormedRequest(stream)
      /\ ~DecoderFailed) =>
       /\ Last(history) = "done"
       /\ response = <<"Done">>
       /\ Len(dispatched) = 1
       /\ dispatched[1].config = ExpectedConfig(stream)
       /\ dispatched[1].model = model

\* A validation error, then a well-formed request answered "Done".
C3_Witness ==
  /\ Finished
  /\ history = <<"validation", "done">>
  /\ Connected
  /\ WellFormedRequest(stream)
  /\ response = <<"Done">>

\* C4: "Done" is written only after Parse returned and RunDecoder ran over
\* every input unit; a client is written at most one line, so never a
\* diagnostic and "Done" both; a well-formed request is written no
\* diagnostic, and "Done" when its round ends without a decoder failure.
C4_DoneOnlyAfterDecode ==
  /\ "Done" \in Range(response) =>
       /\ exc = NoException
       /\ cout = <<ParseEcho(config_)>>
       /\ Len(dispatched) = 1
       /\ events # << >>
       /\ Len(TopWrites(events)) =
            InputUnits(dispatched[1].config["input_matched"])
  /\ Len(response) <= 1
  /\ (Connected /\ WellFormedRequest(stream)) =>
       /\ Range(response) \subseteq {"Done"}
       /\ (Finished /\ ~DecoderFailed) => response = <<"Done">>

\* A well-formed request was decoded over both units of its input and
\* answered "Done".
C4_Witness ==
  /\ Finished
  /\ Connected
  /\ WellFormedRequest(stream)
  /\ response = <<"Done">>
  /\ Len(TopWrites(events)) = 2

\* C5, as the specification states it: a request that gives a mandatory key
\* K twice, and is valid otherwise, is handled as a validation error at the
\* inner boundary: the client is written the key-count diagnostic naming K
\* and the count 2, and decode is not dispatched.
C5_DuplicateKeyIsValidationError ==
  \A K \in RequiredKeys :
    (/\ Finished
     /\ Connected
     /\ Occurrences(stream, K) = 2
     /\ KeysOf(stream) \subseteq QueryKeys
     /\ OmittedKeys(stream) = {}
     /\ \A k \in KeysOf(stream) \ {K} : Occurrences(stream, k) = 1) =>
      /\ Last(history) = "validation"
      /\ response = <<CountDiagnostic(K, 2)>>
      /\ dispatched = << >>

\* C8: every configuration handed to the decoder holds, for each optional
\* key, the value the request gives it, and the declared default when the
\* request omits it, whatever earlier connections gave.
C8_DefaultsWhenOmitted ==
  \A i \in 1..Len(dispatched) :
    \A k \in QueryKeys \ RequiredKeys :
      dispatched[i].config[Option(k).target] = Resolved(stream, k)

\* Decode was dispatched for a request that omits an optional key an
\* earlier connection gave.
C8_Witness ==
  /\ dispatched # << >>
  /\ \E k \in supplied : k \notin KeysOf(stream)
  /\ \A k \in (QueryKeys \ RequiredKeys) \ KeysOf(stream) :
       dispatched[1].config[Option(k).target] = DeclaredDefault(k)

\* C9: inside the loop, a failure that is not a validation error is caught
\* at the outer boundary, logged for the operator, and the server goes back
\* to accept; once the acceptor is open the process never leaves the loop.
C9_OuterBoundaryKeepsLoop ==
  /\ acceptor.open => pc \in LoopPlaces
  /\ (acceptor.open /\ exc # NoException /\ ~IsArgumentParseError(exc)) =>
       \/ pc = "outer_catch"
       \/ /\ pc = "accept"
          /\ Last(history) = "outer"
          /\ Last(cerr) = exc.what
          /\ response = << >>

\* A round ended at the outer boundary, and the round after it was served.
C9_Witness ==
  /\ Len(history) = 2
  /\ history[1] = "outer"
  /\ pc = "accept"
  /\ acceptor.open

\* The command line names a language-model type the server knows (salm
\* when it names none) and gives each mandatory option.
TypeRecognised(args) ==
  \A i \in 1..Len(args) :
    args[i].key = "lm.type" => args[i].value \in {"sri", "salm"}

MandatoryGiven(args) ==
  \A k \in {"lm.file", "lm.order", "port"} : k \in KeysOf(args)

GivenOnce(args) ==
  \A k \in {"lm.file", "lm.order", "port"} : Occurrences(args, k) = 1

\* C10: the model is loaded and the acceptor opened only for a command line
\* that passed validation, the model exactly once and before the acceptor;
\* with an unknown language-model type or a mandatory option missing the
\* process terminates having loaded no model, opened no acceptor and served
\* no connection.
C10_StartupOrder ==
  /\ (loads > 0 \/ acceptor.open \/ conn > 0) =>
       (TypeRecognised(argv) /\ GivenOnce(argv))
  /\ acceptor.open => (loads = 1 /\ model \in {"sri", "salm"})
  /\ loads <= 1
  /\ (pc # "main" /\ ~(TypeRecognised(argv) /\ MandatoryGiven(argv))) =>
       /\ pc = "terminated"
       /\ loads = 0
       /\ model = "none"
       /\ ~acceptor.open
       /\ conn = 0
       /\ history = << >>
       /\ cerr = << >>

\* The process has terminated on the unknown type srilm: no model, no
\* acceptor.
C10_Witness ==
  /\ pc = "terminated"
  /\ ~TypeRecognised(argv)
  /\ MandatoryGiven(argv)
  /\ exc = NoSuchLMError("srilm")
  /\ loads = 0
  /\ ~acceptor.open

\* The connection in hand is being handled: its request is being read or
\* parsed, decoded, answered, or its failure is at a boundary.
InFlight ==
  \/ pc \in {"parse", "decode", "done", "inner_catch"}
  \/ pc = "outer_catch" /\ Connected

\* C11: a connection is accepted only when none is in flight: the server is
\* at accept, and the handling of the one before (reading its request
\* included) is over.  Every step that accepts takes exactly one client.
C11_OneConnectionInFlight ==
  [][conn' # conn =>
       /\ conn' = conn + 1
       /\ pc = "accept"
       /\ ~InFlight
       /\ conn > 0 => Len(history) >= conn
       /\ pc' = "parse"]_vars

\* The second client has been accepted, after the round of the first ended.
C11_Witness ==
  /\ conn = 2
  /\ pc = "parse"
  /\ Len(history) = 1
  /\ InFlight

\* C12: the configuration and the confidence vector handed to the decoder
\* for a connection are what a parser constructed for that connection alone
\* would give on its request: nothing an earlier connection left in the
\* reused parser, whether it succeeded or failed, shows in them.
C12_RequestStateConnectionLocal ==
  \A i \in 1..Len(dispatched) :
    /\ dispatched[i].config = Parse(stream, InitialConfig, << >>).config
    /\ Parse(stream, InitialConfig, << >>).exc = NoException
    /\ confidence_string_ = ValueOf(stream, "input.confidence")

\* The decoder was dispatched for the second connection, whose request
\* omits an optional key the first, decoded too, had given.
C12_Witness ==
  /\ conn = 2
  /\ history = <<"done">>
  /\ dispatched # << >>
  /\ \E k \in supplied : k \notin KeysOf(stream)
  /\ dispatched[1].config = Parse(stream, InitialConfig, << >>).config

\* The backend the command line selects: the lm.type it gives, salm when it
\* gives none.
SelectedBackend(args) ==
  IF "lm.type" \in KeysOf(args) THEN ValueOf(args, "lm.type") ELSE "salm"

\* C13: the process loads at most one language model; from the moment the
\* acceptor is about to be opened on, exactly one has been loaded, of the
\* backend selected at startup, and every decode dispatch is given that one.
C13_SingleModelInstance ==
  /\ loads <= 1
  /\ pc \in LoopPlaces \cup {"bind"} =>
       /\ loads = 1
       /\ model = SelectedBackend(argv)
       /\ model \in {"sri", "salm"}
  /\ conn > 0 => loads = 1
  /\ \A i \in 1..Len(dispatched) : dispatched[i].model = model

\* The sri model, loaded once, serves the second connection's decode.
C13_Witness ==
  /\ conn = 2
  /\ Len(history) >= 1
  /\ dispatched # << >>
  /\ dispatched[1].model = "sri"
  /\ loads = 1

\* C14, as the specification states it: a command line valid but for the
\* value of its port, which is any number from 0 to 65535, passes startup
\* validation, and the acceptor is opened on exactly that port.
C14_EveryPortAccepted ==
  (/\ pc # "main"
   /\ TypeRecognised(argv)
   /\ GivenOnce(argv)
   /\ Occurrences(argv, "lm.type") <= 1
   /\ PortNumber(ValueOf(argv, "port")) \in 0..65535) =>
    /\ exc.class # "po::invalid_option_value"
    /\ service_config["port"] = ValueOf(argv, "port")
    /\ acceptor.open => acceptor.port = PortNumber(ValueOf(argv, "port"))

\* C15: in every configuration handed to the decoder the horizon radius of
\* the input configuration equals that of the decoder configuration, which
\* is the one the request gives or the default, whatever radii earlier
\* requests gave.
C15_HorizonSynchronised ==
  \A i \in 1..Len(dispatched) :
    /\ dispatched[i].config["text.horizon_radius"] =
         dispatched[i].config["decoder.coverage.old_horizon"]
    /\ dispatched[i].config["text.horizon_radius"] =
         Resolved(stream, "horizon.radius")

\* Decode was dispatched with the default radius in both places after an
\* earlier connection had given another radius.
C15_Witness ==
  /\ dispatched # << >>
  /\ "horizon.radius" \in supplied
  /\ "horizon.radius" \notin KeysOf(stream)
  /\ dispatched[1].config["text.horizon_radius"] = "5"
  /\ dispatched[1].config["decoder.coverage.old_horizon"] = "5"

\* C16: the key-count check comes before the confidence string is parsed
\* and takes the mandatory keys in their fixed order: once Parse has run on
\* a request the option parser takes and that omits mandatory keys, the
\* exception is the key-count error of the first omitted key, whatever the
\* confidence string is and however many keys are omitted; it goes to the
\* inner boundary and Parse has echoed nothing.
C16_CountCheckBeforeConfidences ==
  (/\ Connected
   /\ pc # "parse"
   /\ BlockAccepted(stream)
   /\ OmittedKeys(stream) # {}) =>
    /\ exc.class = "ArgumentCountException"
    /\ exc.what = CountDiagnostic(FirstOmitted(stream), 0)
    /\ pc \in {"inner_catch", "accept"}
    /\ cout = << >>
    /\ Finished => response = <<CountDiagnostic(FirstOmitted(stream), 0)>>

\* A request that omits a mandatory key and carries the confidence string
\* "0.9 abc" was answered with the key-count error.
C16_Witness ==
  /\ Finished
  /\ Connected
  /\ OmittedKeys(stream) # {}
  /\ BlockAccepted(stream)
  /\ "input.confidence" \in KeysOf(stream)
  /\ ValueOf(stream, "input.confidence") = ConfidenceSamples.residue
  /\ exc.class = "ArgumentCountException"

\* What decode dispatch is to do over n input units: for each unit in
\* order one decoder run, then one one-best write, then one oracle write
\* when the oracle output is enabled.
UnitSteps(oracle) ==
  IF oracle THEN <<"decoder.Run", "top.Write", "oracle.Write">>
  ELSE <<"decoder.Run", "top.Write">>

ExpectedEvents(n, oracle) ==
  [j \in 1..(n * Len(UnitSteps(oracle))) |->
     [op |-> UnitSteps(oracle)[((j - 1) % Len(UnitSteps(oracle))) + 1],
      unit |-> ((j - 1) \div Len(UnitSteps(oracle))) + 1]]

\* C17: after the one-best file is opened, decode dispatch does, unit by
\* unit in input order up to exhaustion, one decoder run, then one one-best
\* write, then an oracle write exactly when the request's oracle prefix is
\* not empty; nothing is written for a unit before its run and nothing is
\* run after the last unit.  When a decoder run fails, what was done is what
\* comes before that run, and the one-best file holds the results written.
C17_UnitByUnit ==
  dispatched # << >> =>
    /\ Len(dispatched) = 1
    /\ events # << >>
    /\ events[1] = [op |-> "one_best.open", unit |-> 0]
    /\ \E full \in {ExpectedEvents(
                      InputUnits(dispatched[1].config["input_matched"]),
                      dispatched[1].config["output_oracle_prefix"] # "")} :
         IF DecoderFailed
         THEN /\ Len(events) >= 2
              /\ Len(events) - 1 <= Len(full)
              /\ Tail(events) = SubSeq(full, 1, Len(events) - 1)
              /\ Last(events).op = "decoder.Run"
         ELSE Tail(events) = full
    /\ files[dispatched[1].config["output_one_best"]] = TopWrites(events)

\* Both units of the input were decoded and written, oracle results too.
C17_Witness ==
  /\ Finished
  /\ response = <<"Done">>
  /\ dispatched[1].config["output_oracle_prefix"] = "/tmp/oracle"
  /\ Tail(events) = ExpectedEvents(2, TRUE)
  /\ Len(events) = 7

\* C18 (under FairSpec): once the acceptor is open the server is at accept
\* again and again: wherever it is in the handling of a connection, valid,
\* invalid or failing, it comes back to accept.
C18_AlwaysBackToAccept == acceptor.open ~> (pc = "accept")

\* Two rounds, one ended by a validation error and one at the outer
\* boundary, are over and the server is at accept.
C18_Witness ==
  /\ pc = "accept"
  /\ acceptor.open
  /\ Len(history) = 2
  /\ "validation" \in Range(history)
  /\ "outer" \in Range(history)

\* The round in hand is at, or ended at, the outer boundary.
AtOuterBoundary ==
  \/ pc = "outer_catch"
  \/ Finished /\ Last(history) = "outer"

\* The request names a key the option table does not have.
HasUnknownKey(request) ==
  \E i \in 1..Len(request) : request[i].key \notin QueryKeys

\* C19: a round that ends at the outer boundary writes the client nothing,
\* neither a diagnostic nor "Done"; when the failure came out of the parsing
\* of the request (the decoder did not fail), the decoder was not run; and
\* a request with an unknown key ends nowhere else.
C19_OuterBoundarySilent ==
  /\ AtOuterBoundary =>
       /\ response = << >>
       /\ exc # NoException /\ ~IsArgumentParseError(exc)
       /\ ~DecoderFailed => dispatched = << >> /\ events = << >>
       /\ DecoderFailed => Len(dispatched) = 1
  /\ (Connected /\ HasUnknownKey(stream)) =>
       \/ pc = "parse"
       \/ AtOuterBoundary /\ exc.class = "po::unknown_option"

\* A connected client sent an unknown key; its round ended at the outer
\* boundary with nothing written and nothing decoded.
C19_Witness ==
  /\ Finished
  /\ Connected
  /\ Last(history) = "outer"
  /\ HasUnknownKey(stream)
  /\ exc.class = "po::unknown_option"
  /\ response = << >>
  /\ dispatched = << >>

\* A round ended at the outer boundary because the decoder failed.
C19_WitnessDecoder ==
  /\ Finished
  /\ Last(history) = "outer"
  /\ DecoderFailed
  /\ response = << >>

(***************************************************************************)
(* Properties of ParseConfidences, checked under SpecCall.                 *)
(***************************************************************************)
\* C6, as the specification states it: ParseConfidences raises the
\* malformed-confidence error for every string that is not a
\* whitespace-separated list of numeric literals, a trailing lone sign or
\* an incomplete number included.
C6_EveryMalformedRejected ==
  (call_state \in {"returned", "threw"} /\ ~WellFormedConfidence(call_string))
    => call_state = "threw"

\* C7: on a string of whitespace-separated numeric literals, with leading
\* or trailing whitespace or none, ParseConfidences returns and the vector
\* is exactly the numbers listed, in order, whatever it held before.
C7_ListParsedExactly ==
  (call_state \in {"returned", "threw"} /\ WellFormedConfidence(call_string))
    => /\ call_state = "returned"
       /\ call_vector = ListedNumbers(call_string)

\* Two numbers after leading whitespace were parsed into a vector that held
\* something else before.
C7_Witness ==
  /\ call_state = "returned"
  /\ call_string = <<" ", "1", " ", "0">>
  /\ WellFormedConfidence(call_string)
  /\ call_vector = <<Normalise(FALSE, 1, 0), Normalise(FALSE, 0, 0)>>

====
